---- MODULE Spec2Model ----
(***************************************************************************)
(* Model of the blockchain programs of this repository:                    *)
(*   src/mpi/multiblockchainDP.py          one MPI sub-communicator (group)*)
(*   src/single_node/basicBlockchain.py    interactive single node         *)
(*   src/single_node/blockchainDynamicPersist.py  command-line single node *)
(*                                                                         *)
(* Modelling conventions                                                   *)
(*  - hash(block): Block defines neither __hash__ nor __eq__, so Python's  *)
(*    hash is the identity of the object.  A block carries its identity in *)
(*    the field id = <<process, serial>>; pickling drops it and unpickling *)
(*    allocates a new one.  The empty string "" is EmptyHash = <<>>.       *)
(*  - a str digest is [kind |-> "str", src, i, zeros]: the sha256 of       *)
(*    str(src) + str(i), with its number of leading '0' characters.        *)
(*  - chan[<<s, d>>] is the FIFO of messages sent by s to d and not yet   *)
(*    received (MPI non-overtaking).  The small nonce and block messages   *)
(*    are buffered by MPI (eager sends); for the ledger message of         *)
(*    synchronize_ledgers the variable eager says whether MPI buffers it.  *)
(***************************************************************************)
EXTENDS Integers, Sequences, FiniteSets, TLC

\* ---------------------------------------------------------------- bounds
MaxProcs == 2       \* largest group size explored
MaxInitLen == 1     \* most block records in a storage file at startup
MaxTx == 5          \* largest numTransactions explored
MaxNonce == 1       \* failed nonce attempts explored per mining round
MaxWork == 4        \* most (members x mining rounds) explored in a session
RaceProcs == 3      \* group size of the three-member sessions (SpecRace)
RaceTx == 4         \* numTransactions of the three-member sessions (SpecRace)
MaxSnFile == 2      \* single node: most block records in the file at startup
MaxSnTx == 1        \* single node: most transactions created in a session
MaxSnBlocks == 1    \* single node: blocks mined beyond a chain of MaxSnFile
MaxTamper == 1      \* single node: most changes made to appended blocks
MaxBadDifficulty == 1 \* Miner.mine is called with difficulty >= -MaxBadDifficulty
MaxExtra == 1       \* block records in a file beyond the hydration limit
MaxWorld == 4       \* largest COMM_WORLD size explored at startup
MaxGroups == 3      \* largest numBlockchains passed to create_subcomm
MaxArgc == 4        \* largest len(sys.argv) explored
MaxClients == 3     \* largest number of clients explored
MaxPopTx == 2       \* largest numTransactions of the population loop
MaxSyncLen == 2     \* most stored blocks in the sessions of SpecSync

\* ------------------------------------------------------ program constants
BLOCK_TAG == 0
NONCE_TAG == 1
BC_TAG == 2
BlockSize == 3          \* forRange: max transactions per block
MineDifficulty == 5     \* difficulty passed to Miner.mine by main
SnDifficulty == 2       \* Blockchain.difficulty of the single-node program
SnNonceRange == 10000   \* nonces tried by the single-node Miner.mine
ReadLimit == 5          \* "while i < 5" of Blockchain.read_blockchain
RequiredArgc == 3       \* check_cla: len(sys.argv) == 3

AllProcs == 0 .. ((IF MaxProcs > RaceProcs THEN MaxProcs ELSE RaceProcs) - 1)
EmptyHash == << >>
EmptyStr == [kind |-> "str", src |-> EmptyHash, i |-> 0, zeros |-> 0]

VARIABLES
    subcommSize,   \* number of members of the group
    numTransactions, \* int(sys.argv[2])
    pc,            \* control point of each member
    blockchain,    \* the member's ledger replica (global blockchain)
    memPool,       \* the member's MemPool replica
    file,          \* the member's storage file blockchain_data: pickled blocks
    nextId,        \* serial of the next object the member allocates
    chan,          \* point-to-point messages in flight
    ledgerLengths, \* allgather: contributions of the members
    syncList,      \* gather at root 0: flags contributed so far
    needSync,      \* local needSync of synchronize_ledgers
    bcastBuf,      \* bcast of the MemPool from root 0
    arrived,       \* number of barriers the member has entered
    newBlock,      \* candidate block of the current round
    mineI,         \* i of Miner.mine
    minedLocal,    \* foundLocal returned by the last Miner.mine
    mined,         \* history: <<digest, foundLocal>> returned by mine, per round
    startLen,      \* history: ledger length when the member began mining
    initLen,       \* history: ledger length when synchronize_ledgers began
    difficulty,    \* the difficulty argument of the member's Miner.mine calls
    eager,         \* whether MPI buffers the ledger message of subcomm.send
    initBc,        \* history: the ledger when synchronize_ledgers began
    nonceFrom,     \* history: sender of the message Miner.mine received last
    blockFrom,     \* history: sender of the block broadcast_block received last
    recvTag,       \* history: tag of the message Miner.mine received last
    worldSize,     \* startup: comm.Get_size() of COMM_WORLD
    numBlockchains, \* startup: argument of create_subcomm
    argc,          \* startup: len(sys.argv)
    stPc,          \* startup: control point of each rank of COMM_WORLD
    color,         \* startup: color computed by create_subcomm
    splitKey,      \* startup: key passed to comm.Split
    subcommRank,   \* startup: subcomm.Get_rank()
    collectives,   \* history: collective calls the rank has entered
    folders,       \* startup: the folders blockchain_<color> that exist
    clientList,    \* population: clientList of rank 0
    popCount,      \* population: numTransactions
    popPc,         \* population: control point of the loop
    popX,          \* population: x of "for x in range(numTransactions)"
    sender,        \* population: sender
    recipient,     \* population: recipient
    popMemPool,    \* population: transactions added to the MemPool
    snPc,          \* basicBlockchain.py: control point of main
    snBlockchain,  \* basicBlockchain.py: global blockchain
    snMemPool,     \* basicBlockchain.py: global memPool
    snFile,        \* basicBlockchain.py: blockchain_data.txt
    snNextId,      \* basicBlockchain.py: serial of the next object
    snTxCount,     \* basicBlockchain.py: transactions created so far
    snChanges,     \* history: add_transaction calls on appended blocks
    snVerified,    \* result of the last verify_chain() on the unchanged chain
    snTampered     \* history: transaction lists changed in a verified chain

vars == << subcommSize, numTransactions, pc, blockchain, memPool, file, nextId,
           chan, ledgerLengths, syncList, needSync, bcastBuf, arrived,
           newBlock, mineI, minedLocal, mined, startLen, initLen,
           difficulty, eager, initBc, nonceFrom, blockFrom, recvTag,
           worldSize, numBlockchains, argc, stPc, color, splitKey, subcommRank,
           collectives, folders,
           clientList, popCount, popPc, popX, sender, recipient, popMemPool,
           snPc, snBlockchain, snMemPool, snFile, snNextId, snTxCount,
           snChanges, snVerified, snTampered >>

mpiVars == << subcommSize, numTransactions, pc, blockchain, memPool, file,
              nextId, chan, ledgerLengths, syncList, needSync, bcastBuf,
              arrived, newBlock, mineI, minedLocal, mined, startLen, initLen,
              difficulty, eager, initBc, nonceFrom, blockFrom, recvTag >>

snVars == << snPc, snBlockchain, snMemPool, snFile, snNextId, snTxCount,
             snChanges, snVerified, snTampered >>

\* history variables of the group session written by three actions only
histVars == << initBc, nonceFrom, blockFrom, recvTag >>

startVars == << worldSize, numBlockchains, argc, stPc, color, splitKey,
                subcommRank, collectives, folders >>

popVars == << clientList, popCount, popPc, popX, sender, recipient, popMemPool >>

\* what no step of a group session changes
auxVars == << difficulty, eager, startVars, popVars >>

Procs == 0 .. (subcommSize - 1)

\* ------------------------------------------------------------ data model
Transaction(by, t) == [by |-> by, time |-> t]

\* Block.__init__
NewBlockObj(id) ==
    [kind |-> "Block", verified_transactions |-> << >>,
     previous_block_hash |-> EmptyHash, nonce |-> EmptyStr,
     block_height |-> 0, id |-> id]

\* hash(block): identity of the object
Hash(b) == b.id

\* Blockchain.__init__
NewBlockchain ==
    [latest_block_hash |-> EmptyHash, chainLength |-> 0, chain |-> << >>]

\* pickle.dump / send of a block: the value without the object identity
RECURSIVE Pickle(_)
Pickle(v) ==
    IF v.kind = "Block"
    THEN [v EXCEPT !.id = EmptyHash, !.nonce = Pickle(v.nonce)]
    ELSE v

\* pickle.load / recv of a block: a new object
Unpickle(v, id) == IF v.kind = "Block" THEN [v EXCEPT !.id = id] ELSE v

\* Blockchain.add_block without the persist_block part
add_block_memMutNoCount(bc, b) ==
    [latest_block_hash |-> Hash(b),
     chainLength |-> bc.chainLength,
     chain |-> Append(bc.chain, [b EXCEPT !.block_height = bc.chainLength + 1])]

add_block_mem(bc, b) ==
    [latest_block_hash |-> Hash(b),
     chainLength |-> bc.chainLength + 1,
     chain |-> Append(bc.chain, [b EXCEPT !.block_height = bc.chainLength + 1])]

\* persist_block: appends the pickled block, height already assigned
persist_blockMutOverwrite(f, bc) == << Pickle(bc.chain[Len(bc.chain)]) >>

persist_block(f, bc) == Append(f, Pickle(bc.chain[Len(bc.chain)]))

get_chain_length(bc) == bc.chainLength

\* a block record left in a storage file by an earlier session
OldBlock(p, k) ==
    [kind |-> "Block", verified_transactions |-> << Transaction(p, 0 - k) >>,
     previous_block_hash |-> EmptyHash,
     nonce |-> [kind |-> "str", src |-> EmptyHash, i |-> 0, zeros |-> MineDifficulty],
     block_height |-> k, id |-> EmptyHash]

OldFile(p, n) == [k \in 1 .. n |-> OldBlock(p, k)]

\* ------------------------------------------------------------------ Init
\* the MPI program at startup: n members, member p with lens[p] stored
\* blocks, t transactions asked for on the command line
MpiInitFiles(n, files, t) ==
    /\ subcommSize = n
    /\ numTransactions = t
    /\ file = [p \in AllProcs |-> IF p < n THEN files[p] ELSE << >>]
    /\ pc = [p \in AllProcs |-> IF p < n THEN "read" ELSE "absent"]
    /\ blockchain = [p \in AllProcs |-> NewBlockchain]
    /\ memPool = [p \in AllProcs |-> << >>]
    /\ nextId = [p \in AllProcs |-> 1]
    /\ chan = [sd \in AllProcs \X AllProcs |-> << >>]
    /\ ledgerLengths = [p \in AllProcs |-> -1]
    /\ syncList = [p \in AllProcs |-> FALSE]
    /\ needSync = [p \in AllProcs |-> FALSE]
    /\ bcastBuf = [sent |-> FALSE, obj |-> << >>]
    /\ arrived = [p \in AllProcs |-> 0]
    /\ newBlock = [p \in AllProcs |-> NewBlockObj(EmptyHash)]
    /\ mineI = [p \in AllProcs |-> 0]
    /\ minedLocal = [p \in AllProcs |-> FALSE]
    /\ mined = [p \in AllProcs |-> << >>]
    /\ startLen = [p \in AllProcs |-> -1]
    /\ initLen = [p \in AllProcs |-> -1]
    /\ initBc = [p \in AllProcs |-> NewBlockchain]
    /\ nonceFrom = [p \in AllProcs |-> -1]
    /\ blockFrom = [p \in AllProcs |-> -1]
    /\ recvTag = [p \in AllProcs |-> -1]

MpiInit(n, lens, t) ==
    MpiInitFiles(n, [p \in AllProcs |-> OldFile(p, lens[p])], t)

\* the single-node program with the storage file f
SnInit(started, f) ==
    /\ snPc = IF started THEN "read" ELSE "off"
    /\ snBlockchain = NewBlockchain
    /\ snMemPool = << >>
    /\ snFile = f
    /\ snNextId = 1
    /\ snTxCount = 0
    /\ snChanges = 0
    /\ snVerified = "none"
    /\ snTampered = FALSE

\* the sessions where every send is buffered by MPI and returns at once
Buffered == eager = TRUE

\* main calls Miner.mine(newBlock, difficulty=5)
MainDifficulty == difficulty = [p \in AllProcs |-> MineDifficulty]

\* the startup of the ranks of COMM_WORLD is not part of the session
StartOff ==
    /\ worldSize = 0
    /\ numBlockchains = 1
    /\ argc = RequiredArgc
    /\ stPc = << >>
    /\ color = << >>
    /\ splitKey = << >>
    /\ subcommRank = << >>
    /\ collectives = << >>
    /\ folders = {}

\* the population loop of rank 0 is not part of the session
PopOff ==
    /\ clientList = << >>
    /\ popCount = 0
    /\ popPc = "off"
    /\ popX = 0
    /\ sender = << >>
    /\ recipient = << >>
    /\ popMemPool = << >>

\* iterations of "while memPool.get_size() > 0" for t transactions
Rounds(t) == (t + BlockSize - 1) \div BlockSize

Init ==
    /\ \E n \in 1 .. MaxProcs, t \in 0 .. MaxTx :
          \E lens \in [AllProcs -> 0 .. MaxInitLen] :
              /\ n * Rounds(t) <= MaxWork
              /\ \A p \in AllProcs : p >= n => lens[p] = 0
              /\ MpiInit(n, lens, t)
    /\ MainDifficulty
    /\ Buffered
    /\ SnInit(FALSE, << >>)
    /\ StartOff
    /\ PopOff

\* sessions of a group of three members that mine two blocks
InitRace ==
    /\ \E lens \in [AllProcs -> 0 .. MaxInitLen] :
          /\ \A p \in AllProcs : p >= RaceProcs => lens[p] = 0
          /\ MpiInit(RaceProcs, lens, RaceTx)
    /\ MainDifficulty
    /\ Buffered
    /\ SnInit(FALSE, << >>)
    /\ StartOff
    /\ PopOff

\* ------------------------------------------------------------- hydration
\* Blockchain.read_blockchain: "while i < 5" never increments i, so every
\* record of the file is loaded until pickle.load raises.  At the end of
\* the file it raises EOFError; at a record that is no pickled block
\* (kind "Unreadable") it raises the exception the bytes lead to.
RECURSIVE LoadAll(_, _, _, _)
LoadAll(bc, f, p, id) ==
    IF f = << >> \/ Head(f).kind # "Block" THEN bc
    ELSE LoadAll(add_block_mem(bc, Unpickle(Head(f), << p, id >>)), Tail(f), p, id + 1)

\* number of records pickle.load returns before it raises
RECURSIVE Readable(_)
Readable(f) ==
    IF f = << >> \/ Head(f).kind # "Block" THEN 0 ELSE 1 + Readable(Tail(f))

\* the exception that ends the loop of read_blockchain
LoadRaises(f) ==
    IF Readable(f) = Len(f) THEN "EOFError" ELSE f[Readable(f) + 1].raises

\* "except EOFError: break" is the only handler: any other exception leaves
\* read_blockchain and main
read_blockchain(p) ==
    /\ pc[p] = "read"
    /\ blockchain' = [blockchain EXCEPT ![p] = LoadAll(@, file[p], p, nextId[p])]
    /\ nextId' = [nextId EXCEPT ![p] = @ + Readable(file[p])]
    /\ pc' = [pc EXCEPT ![p] = IF LoadRaises(file[p]) = "EOFError"
                               THEN "allgather" ELSE LoadRaises(file[p])]
    /\ UNCHANGED << subcommSize, numTransactions, memPool, file, chan,
                    ledgerLengths, syncList, needSync, bcastBuf, arrived,
                    newBlock, mineI, minedLocal, mined, startLen, initLen >>
    /\ UNCHANGED << histVars, auxVars, snVars >>

\* ----------------------------------------------------------- collectives
\* subcomm.barrier(): a member leaves its n-th barrier once every member
\* has entered its n-th barrier.
BarrierOpenMutNoWait(p) == arrived[p] >= 0

BarrierOpen(p) == \A q \in Procs : arrived[q] >= arrived[p]

\* subcomm.send(obj, dest, tag): the pickled object joins the FIFO to dest
Send(ch, src, dest, tag, obj) ==
    [ch EXCEPT ![<< src, dest >>] = Append(@, [tag |-> tag, payload |-> obj])]

\* the sends of "for j in range(subcommSize): if j == subcommRank: continue"
RECURSIVE SendToOthers(_, _, _, _, _)
SendToOthers(ch, src, j, tag, obj) ==
    IF j >= subcommSize THEN ch
    ELSE IF j = src THEN SendToOthers(ch, src, j + 1, tag, obj)
    ELSE SendToOthers(Send(ch, src, j, tag, obj), src, j + 1, tag, obj)

\* index of the first message of the FIFO q that carries the tag, 0 if none
RECURSIVE FirstWithTag(_, _, _)
FirstWithTag(q, tag, k) ==
    IF k > Len(q) THEN 0
    ELSE IF q[k].tag = tag THEN k
    ELSE FirstWithTag(q, tag, k + 1)

RemoveAt(q, k) == SubSeq(q, 1, k - 1) \o SubSeq(q, k + 1, Len(q))

\* ---------------------------------------------------- synchronize_ledgers
\* localLength = blockchain.get_chain_length(); subcomm.allgather(localLength)
SyncAllgather(p) ==
    /\ pc[p] = "allgather"
    /\ ledgerLengths' = [ledgerLengths EXCEPT ![p] = get_chain_length(blockchain[p])]
    /\ initLen' = [initLen EXCEPT ![p] = get_chain_length(blockchain[p])]
    /\ initBc' = [initBc EXCEPT ![p] = blockchain[p]]
    /\ pc' = [pc EXCEPT ![p] = "compute"]
    /\ UNCHANGED << subcommSize, numTransactions, blockchain, memPool, file,
                    nextId, chan, syncList, needSync, bcastBuf, arrived,
                    newBlock, mineI, minedLocal, mined, startLen >>
    /\ UNCHANGED << nonceFrom, blockFrom, recvTag, auxVars, snVars >>

\* the loop "for i, length in enumerate(ledgerLengths)": returns maxLengthRank
RECURSIVE MaxLengthRankMutLess(_, _, _, _)
MaxLengthRankMutLess(lens, i, maxLength, maxLengthRank) ==
    IF i >= subcommSize THEN maxLengthRank
    ELSE IF lens[i] < maxLength
         THEN MaxLengthRankMutLess(lens, i + 1, lens[i], i)
         ELSE MaxLengthRankMutLess(lens, i + 1, maxLength, maxLengthRank)

RECURSIVE MaxLengthRank(_, _, _, _)
MaxLengthRank(lens, i, maxLength, maxLengthRank) ==
    IF i >= subcommSize THEN maxLengthRank
    ELSE IF lens[i] > maxLength
         THEN MaxLengthRank(lens, i + 1, lens[i], i)
         ELSE MaxLengthRank(lens, i + 1, maxLength, maxLengthRank)

\* after the allgather: needSync = maxLengthRank != subcommRank, then the
\* member's contribution to subcomm.gather(needSync, 0)
SyncCompute(p) ==
    /\ pc[p] = "compute"
    /\ \A q \in Procs : ledgerLengths[q] >= 0
    /\ LET ns == MaxLengthRank(ledgerLengths, 0, ledgerLengths[p], p) # p
       IN  /\ needSync' = [needSync EXCEPT ![p] = ns]
           /\ syncList' = [syncList EXCEPT ![p] = ns]
           /\ pc' = [pc EXCEPT ![p] = IF p = 0 THEN "gather"
                                      ELSE IF ns THEN "recv_bc"
                                      ELSE "barrier_sync"]
           /\ arrived' = [arrived EXCEPT ![p] =
                             IF p # 0 /\ ~ns THEN @ + 1 ELSE @]
    /\ UNCHANGED << subcommSize, numTransactions, blockchain, memPool, file,
                    nextId, chan, ledgerLengths, bcastBuf, newBlock, mineI,
                    minedLocal, mined, startLen, initLen >>
    /\ UNCHANGED << histVars, auxVars, snVars >>

\* the sends of rank 0: "for i, sync in enumerate(syncList): if sync is True"
RECURSIVE SendLedgers(_, _, _)
SendLedgers(ch, i, bc) ==
    IF i >= subcommSize THEN ch
    ELSE IF syncList[i]
         THEN SendLedgers(Send(ch, 0, i, BC_TAG, bc), i + 1, bc)
         ELSE SendLedgers(ch, i + 1, bc)

\* pickling of a Blockchain object
PickleChain(bc) == [bc EXCEPT !.chain = [k \in 1 .. Len(bc.chain) |-> Pickle(bc.chain[k])]]

\* unpickling of a Blockchain object: every block is a new object, the
\* attribute latest_block_hash keeps the value it had at the sender
UnpickleChainMutNoBlocks(bc, p, id) == [bc EXCEPT !.chain = << >>]

UnpickleChain(bc, p, id) ==
    [bc EXCEPT !.chain = [k \in 1 .. Len(bc.chain) |->
                             Unpickle(bc.chain[k], << p, id + k - 1 >>)]]

\* the blocking sends of rank 0 all return: either MPI buffers the ledger
\* message, or (a message above the eager limit) each send waits for the
\* matching receive, which rank 0 itself posts only after its sends
SendsReturn ==
    \/ eager
    \/ /\ ~syncList[0]
       /\ \A i \in Procs : syncList[i] => pc[i] = "recv_bc"

\* rank 0 returns from the gather and sends its ledger to the flagged members
SyncSend(p) ==
    /\ pc[p] = "gather"
    /\ p = 0
    /\ \A q \in Procs : pc[q] \notin {"read", "allgather", "compute"}
    /\ SendsReturn
    /\ chan' = SendLedgers(chan, 0, PickleChain(blockchain[p]))
    /\ pc' = [pc EXCEPT ![p] = IF needSync[p] THEN "recv_bc" ELSE "barrier_sync"]
    /\ arrived' = [arrived EXCEPT ![p] = IF needSync[p] THEN @ ELSE @ + 1]
    /\ UNCHANGED << subcommSize, numTransactions, blockchain, memPool, file,
                    nextId, ledgerLengths, syncList, needSync, bcastBuf,
                    newBlock, mineI, minedLocal, mined, startLen, initLen >>
    /\ UNCHANGED << histVars, auxVars, snVars >>

\* Blockchain.persist: rewrites the file from the chain
persist(bc) == [k \in 1 .. Len(bc.chain) |-> Pickle(bc.chain[k])]

\* blockchain = subcomm.recv(source=0, tag=BC_TAG); blockchain.persist()
SyncRecv(p) ==
    /\ pc[p] = "recv_bc"
    /\ LET q == chan[<< 0, p >>]
           k == FirstWithTag(q, BC_TAG, 1)
       IN  /\ k > 0
           /\ LET bc == UnpickleChain(q[k].payload, p, nextId[p])
              IN  /\ blockchain' = [blockchain EXCEPT ![p] = bc]
                  /\ file' = [file EXCEPT ![p] = persist(bc)]
                  /\ nextId' = [nextId EXCEPT ![p] = @ + Len(bc.chain)]
           /\ chan' = [chan EXCEPT ![<< 0, p >>] = RemoveAt(q, k)]
    /\ pc' = [pc EXCEPT ![p] = "barrier_sync"]
    /\ arrived' = [arrived EXCEPT ![p] = @ + 1]
    /\ UNCHANGED << subcommSize, numTransactions, memPool, ledgerLengths,
                    syncList, needSync, bcastBuf, newBlock, mineI, minedLocal,
                    mined, startLen, initLen >>
    /\ UNCHANGED << histVars, auxVars, snVars >>

\* the subcomm.barrier() that ends synchronize_ledgers
SyncBarrier(p) ==
    /\ pc[p] = "barrier_sync"
    /\ BarrierOpen(p)
    /\ pc' = [pc EXCEPT ![p] = IF p = 0 THEN "populate" ELSE "bcast"]
    /\ UNCHANGED << subcommSize, numTransactions, blockchain, memPool, file,
                    nextId, chan, ledgerLengths, syncList, needSync, bcastBuf,
                    arrived, newBlock, mineI, minedLocal, mined, startLen, initLen >>
    /\ UNCHANGED << histVars, auxVars, snVars >>

\* ------------------------------------------- MemPool population and bcast
\* MemPool.add_transaction for x in range(numTransactions)
Populate(n) == [x \in 1 .. n |-> Transaction(0, x)]

\* rank 0 fills its MemPool and is the root of subcomm.bcast(memPool, root=0)
PopulateBcast(p) ==
    /\ pc[p] = "populate"
    /\ memPool' = [memPool EXCEPT ![p] = Populate(numTransactions)]
    /\ bcastBuf' = [sent |-> TRUE, obj |-> Populate(numTransactions)]
    /\ pc' = [pc EXCEPT ![p] = "barrier_bcast"]
    /\ arrived' = [arrived EXCEPT ![p] = @ + 1]
    /\ UNCHANGED << subcommSize, numTransactions, blockchain, file, nextId,
                    chan, ledgerLengths, syncList, needSync, newBlock, mineI,
                    minedLocal, mined, startLen, initLen >>
    /\ UNCHANGED << histVars, auxVars, snVars >>

\* memPool = subcomm.bcast(memPool, root=0) at the other members
BcastRecv(p) ==
    /\ pc[p] = "bcast"
    /\ bcastBuf.sent
    /\ memPool' = [memPool EXCEPT ![p] = bcastBuf.obj]
    /\ pc' = [pc EXCEPT ![p] = "barrier_bcast"]
    /\ arrived' = [arrived EXCEPT ![p] = @ + 1]
    /\ UNCHANGED << subcommSize, numTransactions, blockchain, file, nextId,
                    chan, ledgerLengths, syncList, needSync, bcastBuf, newBlock,
                    mineI, minedLocal, mined, startLen, initLen >>
    /\ UNCHANGED << histVars, auxVars, snVars >>

\* ------------------------------------------------------------- main loop
\* forRange = 3; if memPool.get_size() < forRange: forRange = memPool.get_size()
ForRangeMutOneLess(mp) == IF Len(mp) < BlockSize THEN Len(mp) ELSE BlockSize - 1

ForRange(mp) == IF Len(mp) < BlockSize THEN Len(mp) ELSE BlockSize

\* "while memPool.get_size() > 0": either the member builds the next block
\* (Block(), forRange pull_transaction calls) and enters Miner.mine, or it
\* leaves the loop.  previous_block_hash is never assigned by main.
LoopHead(p) ==
    IF Len(memPool[p]) > 0
    THEN /\ newBlock' = [newBlock EXCEPT ![p] =
                [NewBlockObj(<< p, nextId[p] >>) EXCEPT
                    !.verified_transactions = SubSeq(memPool[p], 1, ForRange(memPool[p]))]]
         /\ memPool' = [memPool EXCEPT ![p] =
                SubSeq(@, ForRange(memPool[p]) + 1, Len(memPool[p]))]
         /\ nextId' = [nextId EXCEPT ![p] = @ + 1]
         /\ mineI' = [mineI EXCEPT ![p] = 0]
         /\ pc' = [pc EXCEPT ![p] = "mine"]
    ELSE /\ pc' = [pc EXCEPT ![p] = "done"]
         /\ UNCHANGED << newBlock, memPool, nextId, mineI >>

\* the subcomm.barrier() after the bcast, then the first test of the loop
BcastBarrier(p) ==
    /\ pc[p] = "barrier_bcast"
    /\ BarrierOpen(p)
    /\ startLen' = [startLen EXCEPT ![p] = get_chain_length(blockchain[p])]
    /\ LoopHead(p)
    /\ UNCHANGED << subcommSize, numTransactions, blockchain, file, chan,
                    ledgerLengths, syncList, needSync, bcastBuf, arrived,
                    minedLocal, mined, initLen >>
    /\ UNCHANGED << histVars, auxVars, snVars >>

\* ------------------------------------------------------------ Miner.mine
\* assert difficulty >= 1, "Difficulty is invalid": the first statement
DifficultyValidMutNoAssert(d) == d = d

DifficultyValid(d) == d >= 1

\* sha256(str(hash(message)) + str(i)) when it starts with the prefix
Sha256Found(message, i, d) ==
    [kind |-> "str", src |-> Hash(message), i |-> i, zeros |-> d]

\* return digest, foundLocal; main stores the digest in newBlock.nonce; the
\* local i of Miner.mine ends with the call
MineReturn(p, digest, foundLocal) ==
    /\ newBlock' = [newBlock EXCEPT ![p].nonce = digest]
    /\ minedLocal' = [minedLocal EXCEPT ![p] = foundLocal]
    /\ mined' = [mined EXCEPT ![p] =
                    Append(@, [digest |-> Pickle(digest), foundLocal |-> foundLocal])]
    /\ mineI' = [mineI EXCEPT ![p] = 0]
    /\ pc' = [pc EXCEPT ![p] = "broadcast"]

\* probe = subcomm.iprobe() is true: digest = subcomm.recv(), any source and
\* any tag; from one source the messages are matched in the order sent
MineRecv(p) ==
    /\ pc[p] = "mine"
    /\ DifficultyValid(difficulty[p])
    /\ \E src \in Procs :
          /\ chan[<< src, p >>] # << >>
          /\ nonceFrom' = [nonceFrom EXCEPT ![p] = src]
          /\ recvTag' = [recvTag EXCEPT ![p] = Head(chan[<< src, p >>]).tag]
          /\ MineReturn(p, Unpickle(Head(chan[<< src, p >>]).payload,
                                    << p, nextId[p] >>), FALSE)
          /\ chan' = [chan EXCEPT ![<< src, p >>] = Tail(@)]
          /\ nextId' = [nextId EXCEPT ![p] =
                 IF Head(chan[<< src, p >>]).payload.kind = "Block" THEN @ + 1 ELSE @]
    /\ UNCHANGED << subcommSize, numTransactions, blockchain, memPool, file,
                    ledgerLengths, syncList, needSync, bcastBuf, arrived,
                    startLen, initLen >>
    /\ UNCHANGED << initBc, blockFrom, auxVars, snVars >>

\* probe is false and the digest of nonce i does not start with the prefix
MineMiss(p) ==
    /\ pc[p] = "mine"
    /\ DifficultyValid(difficulty[p])
    /\ mineI[p] < MaxNonce
    /\ mineI' = [mineI EXCEPT ![p] = @ + 1]
    /\ UNCHANGED << subcommSize, numTransactions, pc, blockchain, memPool, file,
                    nextId, chan, ledgerLengths, syncList, needSync, bcastBuf,
                    arrived, newBlock, minedLocal, mined, startLen, initLen >>
    /\ UNCHANGED << histVars, auxVars, snVars >>

\* probe is false (no message has arrived yet) and the digest of nonce i
\* starts with the prefix: the digest is sent to every other member
MineFind(p) ==
    /\ pc[p] = "mine"
    /\ DifficultyValid(difficulty[p])
    /\ LET digest == Sha256Found(newBlock[p], mineI[p], difficulty[p])
       IN  /\ MineReturn(p, digest, TRUE)
           /\ chan' = SendToOthers(chan, p, 0, NONCE_TAG, digest)
    /\ UNCHANGED << subcommSize, numTransactions, blockchain, memPool, file,
                    nextId, ledgerLengths, syncList, needSync, bcastBuf,
                    arrived, startLen, initLen >>
    /\ UNCHANGED << histVars, auxVars, snVars >>

\* ------------------------------------------------- Miner.broadcast_block
\* local is True: add_block(block, False), the block is sent to every other
\* member, then the member enters the barrier
BroadcastLocal(p) ==
    /\ pc[p] = "broadcast"
    /\ minedLocal[p]
    /\ LET bc == add_block_mem(blockchain[p], newBlock[p])
       IN  /\ blockchain' = [blockchain EXCEPT ![p] = bc]
           /\ file' = [file EXCEPT ![p] = persist_block(@, bc)]
           /\ chan' = SendToOthers(chan, p, 0, BLOCK_TAG,
                                   Pickle(bc.chain[Len(bc.chain)]))
    /\ pc' = [pc EXCEPT ![p] = "barrier_round"]
    /\ arrived' = [arrived EXCEPT ![p] = @ + 1]
    /\ UNCHANGED << subcommSize, numTransactions, memPool, nextId,
                    ledgerLengths, syncList, needSync, bcastBuf, newBlock,
                    mineI, minedLocal, mined, startLen, initLen >>
    /\ UNCHANGED << histVars, auxVars, snVars >>

\* local is False: receivedBlock = subcomm.recv(tag=BLOCK_TAG) from any
\* source, add_block(receivedBlock, False), then the member enters the barrier
BroadcastRecv(p) ==
    /\ pc[p] = "broadcast"
    /\ ~minedLocal[p]
    /\ \E src \in Procs :
          LET q == chan[<< src, p >>]
              k == FirstWithTag(q, BLOCK_TAG, 1)
          IN  /\ k > 0
              /\ LET bc == add_block_mem(blockchain[p],
                               Unpickle(q[k].payload, << p, nextId[p] >>))
                 IN  /\ blockchain' = [blockchain EXCEPT ![p] = bc]
                     /\ file' = [file EXCEPT ![p] = persist_block(@, bc)]
              /\ chan' = [chan EXCEPT ![<< src, p >>] = RemoveAt(q, k)]
              /\ blockFrom' = [blockFrom EXCEPT ![p] = src]
    /\ nextId' = [nextId EXCEPT ![p] = @ + 1]
    /\ pc' = [pc EXCEPT ![p] = "barrier_round"]
    /\ arrived' = [arrived EXCEPT ![p] = @ + 1]
    /\ UNCHANGED << subcommSize, numTransactions, memPool, ledgerLengths,
                    syncList, needSync, bcastBuf, newBlock, mineI, minedLocal,
                    mined, startLen, initLen >>
    /\ UNCHANGED << initBc, nonceFrom, recvTag, auxVars, snVars >>

\* the subcomm.barrier() that ends broadcast_block, then the next test of
\* the loop
RoundBarrier(p) ==
    /\ pc[p] = "barrier_round"
    /\ BarrierOpen(p)
    /\ LoopHead(p)
    /\ UNCHANGED << subcommSize, numTransactions, blockchain, file, chan,
                    ledgerLengths, syncList, needSync, bcastBuf, arrived,
                    minedLocal, mined, startLen, initLen >>
    /\ UNCHANGED << histVars, auxVars, snVars >>

\* --------------------------------------------------------- specification
\* a rank outside the group has pc = "absent" and takes no step
Next ==
    \E p \in AllProcs :
        \/ read_blockchain(p)
        \/ SyncAllgather(p)
        \/ SyncCompute(p)
        \/ SyncSend(p)
        \/ SyncRecv(p)
        \/ SyncBarrier(p)
        \/ PopulateBcast(p)
        \/ BcastRecv(p)
        \/ BcastBarrier(p)
        \/ MineRecv(p)
        \/ MineMiss(p)
        \/ MineFind(p)
        \/ BroadcastLocal(p)
        \/ BroadcastRecv(p)
        \/ RoundBarrier(p)

Spec == Init /\ [][Next]_vars

SpecRace == InitRace /\ [][Next]_vars

\* ------------------------------------------------------------ properties
\* members that have returned from synchronize_ledgers and not yet mined
Returned == {"populate", "bcast", "barrier_bcast"}
AllReturned == \A p \in Procs : pc[p] \in Returned

RECURSIVE MaxOf(_, _)
MaxOf(f, n) == IF n = 0 THEN f[0]
               ELSE IF f[n] > MaxOf(f, n - 1) THEN f[n] ELSE MaxOf(f, n - 1)
MaxInit == MaxOf(initLen, subcommSize - 1)

\* C1: once all members have returned from synchronize_ledgers, every
\* member of the group reports the same get_chain_length(), whatever the
\* initial lengths were.
C1_EqualAfterSync ==
    AllReturned =>
        \A p, q \in Procs :
            get_chain_length(blockchain[p]) = get_chain_length(blockchain[q])

\* C2: if rank 0 holds a longest ledger when synchronize_ledgers starts,
\* every member ends with the maximum length; executions that end with
\* unequal lengths are those where rank 0 was not a longest holder.
C2_EqualWhenRank0Longest ==
    AllReturned =>
        /\ initLen[0] = MaxInit =>
              \A p \in Procs : get_chain_length(blockchain[p]) = MaxInit
        /\ (\E p, q \in Procs :
               get_chain_length(blockchain[p]) # get_chain_length(blockchain[q]))
              => initLen[0] < MaxInit

C2_Witness ==
    /\ AllReturned
    /\ initLen[0] = MaxInit
    /\ \E p \in Procs : initLen[p] < MaxInit /\ get_chain_length(blockchain[p]) = MaxInit

\* rounds of mining the member has started
RoundOf(p) == Len(mined[p]) + (IF pc[p] = "mine" THEN 1 ELSE 0)
\* blocks the member has appended since it began mining
Appended(p) == IF startLen[p] < 0 THEN 0
               ELSE get_chain_length(blockchain[p]) - startLen[p]
\* rounds every member has returned from Miner.mine in
RoundsAllMined == {k \in 1 .. Len(mined[0]) : \A p \in Procs : Len(mined[p]) >= k}

\* C3: in every mining round exactly one member returns from Miner.mine
\* with foundLocal = true.
C3_ExactlyOneFinder ==
    \A k \in RoundsAllMined :
        Cardinality({p \in Procs : mined[p][k].foundLocal}) = 1

\* C4: in every mining round all members return the same digest from
\* Miner.mine.
C4_SameDigest ==
    \A p, q \in Procs :
        \A k \in 1 .. Len(mined[p]) :
            k <= Len(mined[q]) => mined[p][k].digest = mined[q][k].digest

C6_Lockstep ==
    /\ \A p \in Procs :
          pc[p] \in {"mine", "done"} =>
              get_chain_length(blockchain[p]) = startLen[p] + Len(mined[p])
    /\ \A p, q \in Procs :
          (/\ pc[p] \in {"mine", "done"} /\ pc[q] \in {"mine", "done"}
           /\ Len(mined[p]) = Len(mined[q]) /\ startLen[p] = startLen[q])
              => get_chain_length(blockchain[p]) = get_chain_length(blockchain[q])

C6_Witness ==
    \E p, q \in Procs :
        /\ pc[p] = "done" /\ pc[q] = "done"
        /\ Len(mined[p]) >= 1 /\ Len(mined[q]) >= 1
        /\ mined[p][1].foundLocal /\ ~mined[q][1].foundLocal

\* C7: in every ledger replica the first block's previous hash is empty and
\* every later block stores the hash of the block directly before it.
C7_ChainLinked ==
    \A p \in Procs :
        \A i \in 1 .. Len(blockchain[p].chain) :
            blockchain[p].chain[i].previous_block_hash =
                (IF i = 1 THEN EmptyHash ELSE Hash(blockchain[p].chain[i - 1]))

\* C10: whenever Miner.mine returns for difficulty d >= 1, the returned
\* digest is a string with at least d leading '0' characters.
C10_DigestHasPrefix ==
    \A p \in Procs :
        \A k \in 1 .. Len(mined[p]) :
            /\ mined[p][k].digest.kind = "str"
            /\ mined[p][k].digest.zeros >= MineDifficulty

\* ------------------------------------------------ Blockchain.verify_chain
\* "for i in range(0, self.chainLength-1)": False at the first pair whose
\* hashes differ, True when the loop ends (chain[i] is chain[i + 1] here)
RECURSIVE VerifyFrom(_, _)
VerifyFrom(bc, i) ==
    IF i >= bc.chainLength - 1 THEN TRUE
    ELSE IF Hash(bc.chain[i + 1]) # bc.chain[i + 2].previous_block_hash THEN FALSE
    ELSE VerifyFrom(bc, i + 1)

verify_chainMutSkipFirst(bc) == VerifyFrom(bc, 1)

verify_chain(bc) == VerifyFrom(bc, 0)

\* ------------------------------------------ single node: basicBlockchain.py
\* values an earlier session stored as previous_block_hash: the empty string
\* and the identity of an object of that session (serials of this session
\* start at 1)
StoredHashes == {EmptyHash, << 0, 0 >>}

SnOldBlock(k, prev) == [OldBlock(0, k) EXCEPT !.previous_block_hash = prev]

SnFiles ==
    UNION {{[k \in 1 .. n |-> SnOldBlock(k, prevs[k])] :
               prevs \in [1 .. n -> StoredHashes]} : n \in 0 .. MaxSnFile}

\* read_blockchain(blockchain_data) at the start of main: as in the MPI
\* program, i is never incremented and every record is loaded
SnRead ==
    /\ snPc = "read"
    /\ snBlockchain' = LoadAll(snBlockchain, snFile, 0, snNextId)
    /\ snNextId' = snNextId + Len(snFile)
    /\ snPc' = "menu"
    /\ UNCHANGED << snMemPool, snFile, snTxCount, snChanges, snVerified, snTampered >>
    /\ UNCHANGED << mpiVars, startVars, popVars >>

\* choice '2': memPool.add_transaction(tempTransaction)
SnAddTransaction ==
    /\ snPc = "menu"
    /\ snTxCount < MaxSnTx
    /\ snMemPool' = Append(snMemPool, Transaction(0, snTxCount + 1))
    /\ snTxCount' = snTxCount + 1
    /\ UNCHANGED << snPc, snBlockchain, snFile, snNextId, snChanges, snVerified,
                    snTampered >>
    /\ UNCHANGED << mpiVars, startVars, popVars >>

\* the values the single-node Miner.mine can return for a block: a digest
\* found for some i in range(10000) (the last i stands for the range), or
\* None when the loop ends without one
SnMineResults(b) ==
    {Sha256Found(b, SnNonceRange - 1, SnDifficulty), [kind |-> "None"]}

\* choice '3': a block of up to 3 transactions, previous_block_hash =
\* blockchain.get_last_hash(), Nonce = Miner.mine(...), add_block(tempBlock, False)
SnMineBlock ==
    /\ snPc = "menu"
    /\ snBlockchain.chainLength < MaxSnFile + MaxSnBlocks
    /\ \E nonce \in SnMineResults(NewBlockObj(<< 0, snNextId >>)) :
          LET tempBlock ==
                  [NewBlockObj(<< 0, snNextId >>) EXCEPT
                      !.verified_transactions = SubSeq(snMemPool, 1, ForRange(snMemPool)),
                      !.previous_block_hash = snBlockchain.latest_block_hash,
                      !.nonce = nonce]
              bc == add_block_mem(snBlockchain, tempBlock)
          IN  /\ snBlockchain' = bc
              /\ snFile' = persist_block(snFile, bc)
    /\ snMemPool' = SubSeq(snMemPool, ForRange(snMemPool) + 1, Len(snMemPool))
    /\ snNextId' = snNextId + 1
    /\ snVerified' = "none"
    /\ UNCHANGED << snPc, snTxCount, snChanges, snTampered >>
    /\ UNCHANGED << mpiVars, startVars, popVars >>

\* a call of blockchain.verify_chain()
SnVerify ==
    /\ snPc = "menu"
    /\ snVerified' = IF verify_chain(snBlockchain) THEN "True" ELSE "False"
    /\ UNCHANGED << snPc, snBlockchain, snMemPool, snFile, snNextId, snTxCount,
                    snChanges, snTampered >>
    /\ UNCHANGED << mpiVars, startVars, popVars >>

\* Block.add_transaction on a block already in the chain: its transaction
\* list changes, nothing is mined again
SnTamper ==
    /\ snPc = "menu"
    /\ snChanges < MaxTamper
    /\ \E i \in 1 .. Len(snBlockchain.chain) :
          /\ snBlockchain' = [snBlockchain EXCEPT
                 !.chain[i].verified_transactions = Append(@, Transaction(0, 0))]
          /\ snTampered' = (snTampered \/ (i < Len(snBlockchain.chain)
                                           /\ verify_chain(snBlockchain)))
    /\ snChanges' = snChanges + 1
    /\ snVerified' = "none"
    /\ UNCHANGED << snPc, snMemPool, snFile, snNextId, snTxCount >>
    /\ UNCHANGED << mpiVars, startVars, popVars >>

InitSN ==
    /\ MpiInit(0, [p \in AllProcs |-> 0], 0)
    /\ MainDifficulty
    /\ Buffered
    /\ \E f \in SnFiles : SnInit(TRUE, f)
    /\ StartOff
    /\ PopOff

NextSN ==
    \/ SnRead
    \/ SnAddTransaction
    \/ SnMineBlock
    \/ SnVerify
    \/ SnTamper

SpecSN == InitSN /\ [][NextSN]_vars

\* every adjacent pair of the chain is linked
AllLinked(chain) ==
    \A i \in 1 .. Len(chain) - 1 : Hash(chain[i]) = chain[i + 1].previous_block_hash

\* C8: verify_chain returns true exactly when every adjacent pair of the
\* chain is linked by hash, false when one pair differs; a chain of zero or
\* one block verifies as true.
C8_VerifyIffLinked ==
    snVerified # "none" =>
        /\ (snVerified = "True") <=> AllLinked(snBlockchain.chain)
        /\ Len(snBlockchain.chain) <= 1 => snVerified = "True"

C8_Witness ==
    /\ snVerified = "False"
    /\ Len(snBlockchain.chain) >= 3
    /\ AllLinked(Tail(snBlockchain.chain))

\* C9: once the transaction list of a block that has a successor was changed
\* in a chain that verified, verify_chain returns false.
C9_TamperDetected ==
    (snTampered /\ snVerified # "none") => snVerified = "False"

\* ------------------------------------- Miner.mine called with a difficulty
\* the assert fails: AssertionError leaves Miner.mine before the loop
MineAssert(p) ==
    /\ pc[p] = "mine"
    /\ ~DifficultyValid(difficulty[p])
    /\ pc' = [pc EXCEPT ![p] = "AssertionError"]
    /\ UNCHANGED << subcommSize, numTransactions, blockchain, memPool, file,
                    nextId, chan, ledgerLengths, syncList, needSync, bcastBuf,
                    arrived, newBlock, mineI, minedLocal, mined, startLen,
                    initLen >>
    /\ UNCHANGED << histVars, auxVars, snVars >>

\* the difficulty values a caller passes to Miner.mine
DifficultyInputs == ((0 - MaxBadDifficulty) .. 1) \cup {MineDifficulty}

\* sessions where only rank 0 has stored blocks and whose members call
\* Miner.mine with a difficulty of DifficultyInputs
InitMine ==
    /\ \E n \in 1 .. MaxProcs, t \in 0 .. MaxTx, len0 \in 0 .. MaxInitLen :
          /\ n * Rounds(t) <= MaxWork
          /\ MpiInit(n, [p \in AllProcs |-> IF p = 0 THEN len0 ELSE 0], t)
          /\ \E d \in [AllProcs -> DifficultyInputs] :
                /\ \A p \in AllProcs : p >= n => d[p] = MineDifficulty
                /\ difficulty = d
    /\ Buffered
    /\ SnInit(FALSE, << >>)
    /\ StartOff
    /\ PopOff

NextMine ==
    \E p \in AllProcs :
        \/ read_blockchain(p)
        \/ SyncAllgather(p)
        \/ SyncCompute(p)
        \/ SyncSend(p)
        \/ SyncRecv(p)
        \/ SyncBarrier(p)
        \/ PopulateBcast(p)
        \/ BcastRecv(p)
        \/ BcastBarrier(p)
        \/ MineAssert(p)
        \/ MineRecv(p)
        \/ MineMiss(p)
        \/ MineFind(p)
        \/ BroadcastLocal(p)
        \/ BroadcastRecv(p)
        \/ RoundBarrier(p)

SpecMine == InitMine /\ [][NextMine]_vars

\* C11: a member inside Miner.mine with difficulty < 1 leaves the call only
\* through the failed assert, and until then it tests no nonce, receives
\* and sends no message and changes nothing of its ledger, file, MemPool
\* or candidate block.
C11_InvalidDifficultyRejected ==
    [][\A p \in Procs :
          (pc[p] = "mine" /\ difficulty[p] < 1) =>
              /\ pc'[p] \in {"mine", "AssertionError"}
              /\ mineI'[p] = mineI[p]
              /\ mined'[p] = mined[p]
              /\ minedLocal'[p] = minedLocal[p]
              /\ newBlock'[p] = newBlock[p]
              /\ blockchain'[p] = blockchain[p]
              /\ file'[p] = file[p]
              /\ memPool'[p] = memPool[p]
              /\ nextId'[p] = nextId[p]
              /\ \A q \in Procs :
                    /\ Len(chan'[<< q, p >>]) >= Len(chan[<< q, p >>])
                    /\ Len(chan'[<< p, q >>]) <= Len(chan[<< p, q >>])]_vars

\* a member was rejected while a nonce announcement was waiting for it
C11_Witness ==
    \E p, q \in Procs :
        /\ pc[p] = "AssertionError"
        /\ difficulty[p] < 1
        /\ chan[<< q, p >>] # << >>
        /\ mined[p] = << >>

\* ------------------------------------------------------- the mining loop
\* states in which newBlock is the block built in the current round
Building == {"mine", "broadcast", "barrier_round"}

\* C12: a member that leaves the mining loop of a session with T
\* transactions has performed Rounds(T) = ceil(T / 3) rounds and its ledger
\* is Rounds(T) longer than when it began mining; every block built holds
\* 1 to 3 transactions, and 3 unless it is the last.
C12_RoundsAndBlockSizes ==
    \A p \in Procs :
        /\ RoundOf(p) <= Rounds(numTransactions)
        /\ pc[p] = "done" =>
              /\ Len(mined[p]) = Rounds(numTransactions)
              /\ get_chain_length(blockchain[p])
                    = startLen[p] + Rounds(numTransactions)
        /\ pc[p] \in Building =>
              /\ Len(newBlock[p].verified_transactions) \in 1 .. BlockSize
              /\ memPool[p] # << >> =>
                    Len(newBlock[p].verified_transactions) = BlockSize

\* a member has finished a session whose last block is not full
C12_Witness ==
    \E p \in Procs :
        /\ pc[p] = "done"
        /\ numTransactions > BlockSize
        /\ numTransactions % BlockSize # 0
        /\ Len(blockchain[p].chain[Len(blockchain[p].chain)].verified_transactions)
              < BlockSize
        /\ get_chain_length(blockchain[p]) = startLen[p] + 2

\* ------------------------------------------------- MemPool replication
\* control points before the member holds the broadcast MemPool
BeforeBcast == {"read", "allgather", "compute", "gather", "recv_bc",
                "barrier_sync", "populate", "bcast"}

\* C13: once any member has started mining, every member holds the MemPool
\* rank 0 populated (a member still at the barrier holds it whole, a member
\* in its first round holds it split into its first block and the rest);
\* no other member than rank 0 creates a transaction or fills a MemPool.
C13_ReplicasBeforeMining ==
    /\ (\E p \in Procs : pc[p] \in Building \cup {"done"}) =>
          \A q \in Procs :
              /\ pc[q] \notin BeforeBcast
              /\ bcastBuf.obj = Populate(numTransactions)
              /\ pc[q] = "barrier_bcast" => memPool[q] = bcastBuf.obj
              /\ (pc[q] = "mine" /\ mined[q] = << >>) =>
                    newBlock[q].verified_transactions \o memPool[q] = bcastBuf.obj
    /\ \A q \in Procs :
          /\ (q # 0 /\ pc[q] \in BeforeBcast) => memPool[q] = << >>
          /\ \A k \in 1 .. Len(memPool[q]) : memPool[q][k].by = 0

\* a member mines its first round while another still waits at the barrier
\* with the whole replica
C13_Witness ==
    \E p, q \in Procs :
        /\ p # q
        /\ q # 0
        /\ pc[p] = "mine"
        /\ mined[p] = << >>
        /\ pc[q] = "barrier_bcast"
        /\ memPool[q] = bcastBuf.obj
        /\ Len(memPool[q]) > BlockSize

\* --------------------------------------- startup of the ranks of COMM_WORLD
AllRanks == 0 .. (MaxWorld - 1)
World == 0 .. (worldSize - 1)

\* create_subcomm: color = rank % numBlockchains
Color(rank, n) == rank % n

\* create_subcomm: the key passed to comm.Split(color, rank)
SplitKeyMutReversed(rank) == 0 - rank

SplitKey(rank) == rank

\* comm.Split(color, key): the ranks that passed the same color form a
\* communicator, ranked by key, ties by the rank in COMM_WORLD
SplitRank(r, colors, keys) ==
    Cardinality({q \in World :
                    /\ colors[q] = colors[r]
                    /\ \/ keys[q] < keys[r]
                       \/ keys[q] = keys[r] /\ q < r})

check_cla(n) == n = RequiredArgc

\* the session has not started: the ranks are importing the module
StartInit(w, g, a) ==
    /\ worldSize = w
    /\ numBlockchains = g
    /\ argc = a
    /\ stPc = [r \in AllRanks |-> IF r < w THEN "import" ELSE "absent"]
    /\ color = [r \in AllRanks |-> -1]
    /\ splitKey = [r \in AllRanks |-> -1]
    /\ subcommRank = [r \in AllRanks |-> -1]
    /\ collectives = [r \in AllRanks |-> 0]

\* the output folders are missing (first run in the directory) or were
\* left by an earlier run
InitStart ==
    /\ \E w \in 1 .. MaxWorld, g \in 1 .. MaxGroups, a \in 1 .. MaxArgc :
          /\ StartInit(w, g, a)
          /\ folders \in {{}, 0 .. (g - 1)}
    /\ MpiInit(0, [p \in AllProcs |-> 0], 0)
    /\ MainDifficulty
    /\ Buffered
    /\ SnInit(FALSE, << >>)
    /\ PopOff

\* subcomm, color = create_subcomm(numBlockchains): the rank enters the
\* collective comm.Split
CreateSubcomm(r) ==
    /\ stPc[r] = "import"
    /\ color' = [color EXCEPT ![r] = Color(r, numBlockchains)]
    /\ splitKey' = [splitKey EXCEPT ![r] = SplitKey(r)]
    /\ collectives' = [collectives EXCEPT ![r] = @ + 1]
    /\ stPc' = [stPc EXCEPT ![r] = "split"]
    /\ UNCHANGED << worldSize, numBlockchains, argc, subcommRank, folders >>
    /\ UNCHANGED << mpiVars, popVars, snVars >>

\* comm.Split returns once every rank has called it; the rank then enters
\* comm.barrier()
SplitReturn(r) ==
    /\ stPc[r] = "split"
    /\ \A q \in World : stPc[q] # "import"
    /\ subcommRank' = [subcommRank EXCEPT ![r] = SplitRank(r, color, splitKey)]
    /\ collectives' = [collectives EXCEPT ![r] = @ + 1]
    /\ stPc' = [stPc EXCEPT ![r] = "barrier"]
    /\ UNCHANGED << worldSize, numBlockchains, argc, color, splitKey, folders >>
    /\ UNCHANGED << mpiVars, popVars, snVars >>

\* comm.barrier() returns once every rank has entered it; the module-level
\* code goes on to "if rank == 0: make_folders(...)" and then calls main()
WorldBarrier(r) ==
    /\ stPc[r] = "barrier"
    /\ \A q \in World : stPc[q] \notin {"import", "split"}
    /\ stPc' = [stPc EXCEPT ![r] = IF r = 0 THEN "make_folders" ELSE "main"]
    /\ UNCHANGED << worldSize, numBlockchains, argc, color, splitKey,
                    subcommRank, collectives, folders >>
    /\ UNCHANGED << mpiVars, popVars, snVars >>

\* rank 0: make_folders creates the folder blockchain_<i> of every group
MakeFolders(r) ==
    /\ stPc[r] = "make_folders"
    /\ folders' = folders \cup (0 .. (numBlockchains - 1))
    /\ stPc' = [stPc EXCEPT ![r] = "main"]
    /\ UNCHANGED << worldSize, numBlockchains, argc, color, splitKey,
                    subcommRank, collectives >>
    /\ UNCHANGED << mpiVars, popVars, snVars >>

\* the first time the session of the rank writes its storage file
\* blockchain_<color>/miner_<rank>_<subcommRank>.txt (persist_block or
\* Blockchain.persist): open() raises FileNotFoundError when the folder
\* does not exist
SessionOpenFile(r) ==
    /\ stPc[r] = "session"
    /\ stPc' = [stPc EXCEPT ![r] = IF color[r] \in folders THEN "stored"
                                   ELSE "FileNotFoundError"]
    /\ UNCHANGED << worldSize, numBlockchains, argc, color, splitKey,
                    subcommRank, collectives, folders >>
    /\ UNCHANGED << mpiVars, popVars, snVars >>

\* main: "if (check_cla() is False): print(...)" else the session begins
CheckCla(r) ==
    /\ stPc[r] = "main"
    /\ stPc' = [stPc EXCEPT ![r] = IF check_cla(argc) THEN "session" ELSE "usage"]
    /\ UNCHANGED << worldSize, numBlockchains, argc, color, splitKey,
                    subcommRank, collectives, folders >>
    /\ UNCHANGED << mpiVars, popVars, snVars >>

NextStart ==
    \E r \in AllRanks :
        \/ CreateSubcomm(r)
        \/ SplitReturn(r)
        \/ WorldBarrier(r)
        \/ MakeFolders(r)
        \/ CheckCla(r)
        \/ SessionOpenFile(r)

SpecStart == InitStart /\ [][NextStart]_vars

\* C14: a process started with a wrong number of command-line arguments
\* reports the usage having entered no collective operation.
C14_UsageBeforeCollectives ==
    \A r \in World : stPc[r] = "usage" => collectives[r] = 0

\* ranks of COMM_WORLD below r that share r's group
LowerInGroup(r) ==
    {q \in World : q < r /\ q % numBlockchains = r % numBlockchains}
\* ranks whose comm.Split has returned
SplitDone == {r \in World : subcommRank[r] >= 0}

\* C15: the group of global rank r is r mod G and its local rank is the
\* number of lower global ranks of the same group; so the local ranks of a
\* group are distinct, cover 0 .. groupSize - 1 and keep the global order.
C15_GroupAndLocalRank ==
    /\ \A r \in SplitDone :
          /\ color[r] = r % numBlockchains
          /\ subcommRank[r] = Cardinality(LowerInGroup(r))
    /\ SplitDone = World =>
          \A r \in World :
              LET group == {q \in World : color[q] = color[r]}
              IN  /\ {subcommRank[q] : q \in group} = 0 .. (Cardinality(group) - 1)
                  /\ \A q \in group :
                        /\ q # r => subcommRank[q] # subcommRank[r]
                        /\ q < r => subcommRank[q] < subcommRank[r]

\* every rank has its local rank, and a group has at least two members
C15_Witness ==
    /\ SplitDone = World
    /\ numBlockchains >= 2
    /\ \E r \in World : subcommRank[r] >= 1 /\ color[r] >= 1

\* -------------------------------------------- hydration of long files
\* sessions whose storage files hold up to ReadLimit + MaxExtra records
InitHydrate ==
    /\ \E n \in 1 .. MaxProcs, t \in 0 .. MaxTx :
          \E lens \in [AllProcs -> 0 .. (ReadLimit + MaxExtra)] :
              /\ n * Rounds(t) <= MaxWork
              /\ \A p \in AllProcs : p >= n => lens[p] = 0
              /\ MpiInit(n, lens, t)
    /\ MainDifficulty
    /\ Buffered
    /\ SnInit(FALSE, << >>)
    /\ StartOff
    /\ PopOff

SpecHydrate == InitHydrate /\ [][Next]_vars

\* C16: when read_blockchain has returned the ledger holds at most
\* ReadLimit = 5 blocks, and exactly the records of the file when the file
\* holds fewer than 5.
C16_HydrationBounded ==
    \A p \in Procs :
        pc[p] = "allgather" =>
            /\ get_chain_length(blockchain[p]) <= ReadLimit
            /\ Len(file[p]) < ReadLimit =>
                  get_chain_length(blockchain[p]) = Len(file[p])

\* ------------------------------------------ population of the MemPool
PyInt(x) == [kind |-> "int", v |-> x]
PyNone == [kind |-> "None"]

\* Client(x): the keys play no part in the comparison
Client(x) == [kind |-> "Client", name |-> PyInt(x)]

\* Python's a == b for the values that occur: Client defines __eq__; an int
\* compared with an object that is no number returns NotImplemented and
\* Python calls the reflected __eq__ of the other operand
RECURSIVE PyEq(_, _)
RECURSIVE Client__eq__(_, _)
PyEq(a, b) ==
    IF a.kind = "Client" THEN Client__eq__(a, b)
    ELSE IF b.kind = "int" THEN a.v = b.v
    ELSE Client__eq__(b, a)

\* Client.__eq__(self, name): return self.name == name
Client__eq__MutNever(self, name) == self.name # self.name

Client__eq__(self, name) == PyEq(self.name, name)

\* Transaction(sender, recipient, value)
NewTransaction(s, r) == [sender |-> s, recipient |-> r]

\* for x in range(int(numClients)): clientList.append(Client(x))
PopInit(n, t) ==
    /\ clientList = [x \in 1 .. n |-> Client(x - 1)]
    /\ popCount = t
    /\ popPc = "for"
    /\ popX = 0
    /\ sender = PyNone
    /\ recipient = PyNone
    /\ popMemPool = << >>

InitPop ==
    /\ \E n \in 2 .. MaxClients, t \in 0 .. MaxPopTx : PopInit(n, t)
    /\ MpiInit(0, [p \in AllProcs |-> 0], 0)
    /\ MainDifficulty
    /\ Buffered
    /\ SnInit(FALSE, << >>)
    /\ StartOff

\* random.choice(clientList)
Choices == {clientList[k] : k \in 1 .. Len(clientList)}

\* sender = random.choice(clientList); recipient = random.choice(clientList)
PopChoose ==
    /\ popPc = "for"
    /\ popX < popCount
    /\ \E s \in Choices, r \in Choices :
          /\ sender' = s
          /\ recipient' = r
    /\ popPc' = "while"
    /\ UNCHANGED << clientList, popCount, popX, popMemPool >>
    /\ UNCHANGED << mpiVars, startVars, snVars >>

\* while (sender == recipient): recipient = random.choice(clientList)
PopRedraw ==
    /\ popPc = "while"
    /\ PyEq(sender, recipient)
    /\ \E r \in Choices : recipient' = r
    /\ UNCHANGED << clientList, popCount, popPc, popX, sender, popMemPool >>
    /\ UNCHANGED << mpiVars, startVars, snVars >>

\* memPool.add_transaction(Transaction(sender, recipient, function))
PopAdd ==
    /\ popPc = "while"
    /\ ~PyEq(sender, recipient)
    /\ popMemPool' = Append(popMemPool, NewTransaction(sender, recipient))
    /\ popX' = popX + 1
    /\ popPc' = "for"
    /\ UNCHANGED << clientList, popCount, sender, recipient >>
    /\ UNCHANGED << mpiVars, startVars, snVars >>

\* the for loop ends
PopEnd ==
    /\ popPc = "for"
    /\ popX = popCount
    /\ popPc' = "bcast"
    /\ UNCHANGED << clientList, popCount, popX, sender, recipient, popMemPool >>
    /\ UNCHANGED << mpiVars, startVars, snVars >>

NextPop ==
    \/ PopChoose
    \/ PopRedraw
    \/ PopAdd
    \/ PopEnd

SpecPop == InitPop /\ [][NextPop]_vars

\* C17: every transaction added to the MemPool by the population loop has a
\* sender and a recipient that are different clients.
C17_SenderNotRecipient ==
    \A k \in 1 .. Len(popMemPool) :
        /\ popMemPool[k].sender # popMemPool[k].recipient
        /\ popMemPool[k].sender.name # popMemPool[k].recipient.name

\* a transaction has been added and the next draw picked one client twice
C17_Witness ==
    /\ popMemPool # << >>
    /\ popPc = "while"
    /\ sender = recipient

\* ---------------------------------------------------------- termination
\* C18: no member stays forever in the mining loop, in the blocking receive
\* of broadcast_block or at a round barrier: as long as a member has not
\* left the mining loop, some member can take a step.
C18_NoMemberBlockedForever ==
    (\E p \in Procs : pc[p] # "done") => ENABLED Next

\* ------------------------------------------- frame of synchronize_ledgers
\* the content of a ledger: its blocks without their object identities
Content(bc) ==
    [latest_block_hash |-> bc.latest_block_hash,
     chainLength |-> bc.chainLength,
     chain |-> [k \in 1 .. Len(bc.chain) |-> Pickle(bc.chain[k])]]

\* C19: a member that has returned from synchronize_ledgers holds, if its
\* length was below the group maximum, a ledger with the content of the
\* ledger rank 0 held when the protocol started, and otherwise its own
\* ledger unchanged (chain, length, last hash).
C19_SyncFrame ==
    \A p \in Procs :
        pc[p] \in Returned =>
            IF initLen[p] < MaxInit
            THEN Content(blockchain[p]) = Content(initBc[0])
            ELSE blockchain[p] = initBc[p]

\* all have returned: a member below the maximum has received blocks of
\* rank 0 and a member at the maximum has kept its own
C19_Witness ==
    /\ AllReturned
    /\ \E p, q \in Procs :
          /\ p # 0
          /\ initLen[p] < MaxInit
          /\ blockchain[p].chain # << >>
          /\ blockchain[p] # initBc[p]
          /\ initLen[q] = MaxInit
          /\ blockchain[q] = initBc[q]

\* ----------------------------------------------- finder of nonce and block
\* C20: the block a non-finder has appended in broadcast_block was sent by
\* the member whose message it accepted in Miner.mine of the same round.
C20_BlockFromNonceSender ==
    \A p \in Procs :
        (pc[p] = "barrier_round" /\ ~minedLocal[p]) =>
            blockFrom[p] = nonceFrom[p]

\* ------------------------------------------- hydration of damaged files
\* a record whose bytes are no complete pickled block; pickle.load raises
\* UnpicklingError on most damaged records (truncated data, invalid load
\* key) and EOFError on some
Unreadable(e) == [kind |-> "Unreadable", raises |-> e]
PickleErrors == {"EOFError", "UnpicklingError"}

\* a file of k good records, then possibly a damaged one and a good one
DamagedFile(p, k, e) ==
    IF e = "none" THEN OldFile(p, k)
    ELSE OldFile(p, k) \o << Unreadable(e), OldBlock(p, k + 1) >>

InitDamaged ==
    /\ \E n \in 1 .. MaxProcs, t \in 0 .. MaxTx :
          \E lens \in [AllProcs -> 0 .. MaxInitLen],
             bad \in [AllProcs -> PickleErrors \cup {"none"}] :
              /\ n * Rounds(t) <= MaxWork
              /\ \A p \in AllProcs : p >= n => (lens[p] = 0 /\ bad[p] = "none")
              /\ MpiInitFiles(n, [p \in AllProcs |-> DamagedFile(p, lens[p], bad[p])], t)
    /\ MainDifficulty
    /\ Buffered
    /\ SnInit(FALSE, << >>)
    /\ StartOff
    /\ PopOff

SpecDamaged == InitDamaged /\ [][Next]_vars

\* C21: hydration of a file with an unreadable record does not fail the
\* process: the member goes on to synchronize_ledgers with exactly the
\* blocks stored before that record.
C21_UnreadableStopsReading ==
    \A p \in Procs :
        /\ pc[p] # "UnpicklingError"
        /\ pc[p] = "allgather" =>
              get_chain_length(blockchain[p]) = Readable(file[p])

\* ------------------------------------------------ independence of groups
\* C22: what the members of one group do or fail to do never stops a
\* member of another group: no member of a group other than that of world
\* rank 0 fails in its session, wherever rank 0 stands.
C22_GroupsIndependent ==
    \A r \in World :
        (color[r] >= 0 /\ color[r] # Color(0, numBlockchains)) =>
            stPc[r] # "FileNotFoundError"

\* ------------------------------------------------------ leftover messages
\* C23: when the members pass the barrier that ends a round (all of them
\* have entered it and none has yet sent a message of the next round), no
\* nonce or block message is left unreceived.
C23_NoLeftoverAtBarrier ==
    (\A q \in Procs : pc[q] = "barrier_round") =>
        \A src, dest \in Procs : chan[<< src, dest >>] = << >>

\* ------------------------------------------- transactions of the session
\* the transaction lists of the blocks chain[k .. Len(chain)], concatenated
RECURSIVE TxFrom(_, _)
TxFrom(chain, k) ==
    IF k > Len(chain) THEN << >>
    ELSE chain[k].verified_transactions \o TxFrom(chain, k + 1)

\* C24: when a member has left the mining loop, the blocks it appended in
\* the session hold, in chain order, exactly the transactions of the
\* broadcast MemPool in their FIFO order.
C24_TransactionsExactlyOnce ==
    \A p \in Procs :
        pc[p] = "done" =>
            TxFrom(blockchain[p].chain, startLen[p] + 1) = bcastBuf.obj

\* ------------------------------------------------- tags of Miner.mine
\* C25: every message the probe and receive of Miner.mine have consumed
\* carried NONCE_TAG: no BLOCK_TAG message is taken as the digest of a
\* round, block messages are left to the receive of broadcast_block.
C25_MineReceivesOnlyNonces ==
    \A p \in Procs : recvTag[p] \in {-1, NONCE_TAG}

\* ------------------------------------- synchronize_ledgers on its own
\* groups of up to RaceProcs members with up to MaxSyncLen stored blocks,
\* followed up to the return from synchronize_ledgers; the ledger message
\* is buffered by MPI or not
InitSync ==
    /\ \E n \in 1 .. RaceProcs :
          \E lens \in [AllProcs -> 0 .. MaxSyncLen] :
              /\ \A p \in AllProcs : p >= n => lens[p] = 0
              /\ MpiInit(n, lens, 0)
    /\ MainDifficulty
    /\ eager \in BOOLEAN
    /\ SnInit(FALSE, << >>)
    /\ StartOff
    /\ PopOff

NextSync ==
    \E p \in AllProcs :
        \/ read_blockchain(p)
        \/ SyncAllgather(p)
        \/ SyncCompute(p)
        \/ SyncSend(p)
        \/ SyncRecv(p)
        \/ SyncBarrier(p)

SpecSync == InitSync /\ [][NextSync]_vars

\* C26: a member that has returned from synchronize_ledgers has a ledger at
\* least as long as when the protocol began.
C26_SyncNeverShortens ==
    \A p \in Procs :
        pc[p] \in Returned => get_chain_length(blockchain[p]) >= initLen[p]

\* C29: synchronize_ledgers never blocks for ever: as long as a member has
\* not returned from it some member can take a step, and when all have
\* returned every BC_TAG message has been received.
C29_SyncReturns ==
    /\ (\E p \in Procs : pc[p] \notin Returned) => ENABLED NextSync
    /\ AllReturned =>
          \A src, dest \in Procs : FirstWithTag(chan[<< src, dest >>], BC_TAG, 1) = 0

\* ------------------------------------------- agreement on transactions
\* C27: when all members began mining with ledgers of equal length and all
\* are at the barrier that ends a round, the blocks they appended in the
\* session hold the same transaction sequence at every height.
C27_SameTransactionsAtHeight ==
    (/\ \A p \in Procs : pc[p] = "barrier_round"
     /\ \A p, q \in Procs : startLen[p] = startLen[q]) =>
        \A p, q \in Procs :
            \A h \in (startLen[p] + 1) .. Len(blockchain[p].chain) :
                h <= Len(blockchain[q].chain) =>
                    blockchain[p].chain[h].verified_transactions
                        = blockchain[q].chain[h].verified_transactions

\* ------------------------------------------------- file and memory chain
\* C28: once a member has hydrated its ledger, and at every control point
\* after that (after reconciliation, after each round), its storage file
\* holds the pickled blocks of its in-memory chain, in the same order and
\* number.
C28_FileEqualsChain ==
    \A p \in Procs :
        pc[p] # "read" => file[p] = persist(blockchain[p])

\* a member whose ledger was replaced in synchronize_ledgers has finished a
\* session in which it appended blocks
C28_Witness ==
    \E p \in Procs :
        /\ pc[p] = "done"
        /\ initLen[p] < MaxInit
        /\ get_chain_length(blockchain[p]) > startLen[p]
        /\ startLen[p] > 0
        /\ file[p] = persist(blockchain[p])

====
